---- MODULE Spec2Model ----
(***************************************************************************)
(* shushpy: removal of comments and docstrings from Python source.        *)
(*                                                                         *)
(* A source text is a sequence of physical lines.  A line carries the      *)
(* column of its first character, the statement written on it, the quote   *)
(* style of the string literal in that statement, and whether a `# ...`    *)
(* comment ends the line.  The syntax tree is the tree ast.parse builds    *)
(* from the logical lines; ast.unparse regenerates lines from the tree.    *)
(***************************************************************************)
EXTENDS Integers, Sequences, FiniteSets, TLC

\* ------------------------------------------------------------------ bounds
MaxLines == 3
MaxArgs == 2

\* ------------------------------------------------------------ source text
\* Statements a line can hold:
\*   "class"  class C:            "def"   def f():
\*   "adef"   async def f():      "if"    if x:
\*   "str"    "doc"               "bytes" b"doc"
\*   "fstr"   f"doc{x}"           "assign" x = "# s"
\*   ""       nothing (a blank line, or a line holding only a comment)
HeaderToks == {"class", "def", "adef", "if"}
SimpleToks == {"str", "bytes", "fstr", "assign"}
StmtToks == HeaderToks \cup SimpleToks
StringToks == SimpleToks

NoneValue == "None"

MkLine(col, tok, q, cmt) == [col |-> col, tok |-> tok, q |-> q, cmt |-> cmt]
EmptyLine == MkLine(0, "", "-", FALSE)
MkText(lines, nl) == [lines |-> lines, nl |-> nl]
EmptyText == MkText(<<>>, FALSE)

IsLogical(l) == l.tok # ""

\* source == "": a mistaken emptiness test that forgets str.strip().
IsBlank_noStrip(text) == text.lines = <<>>

\* source.strip() == "": every line holds only whitespace.
IsBlank(text) == \A i \in 1..Len(text.lines) :
                    text.lines[i].tok = "" /\ ~text.lines[i].cmt

\* str.endswith("\n")
endswith_nl(text) == text.nl

\* f"{transformed}\n"
append_nl(text) ==
    IF text.nl \/ text.lines = <<>>
    THEN MkText(Append(text.lines, EmptyLine), TRUE)
    ELSE MkText(text.lines, TRUE)

\* The normalisation left out: the regenerated text returned as it is.
ensure_trailing_newline_missing(transformed) == transformed

\* if not transformed.endswith("\n"): transformed = f"{transformed}\n"
ensure_trailing_newline(transformed) ==
    IF ~endswith_nl(transformed) THEN append_nl(transformed) ELSE transformed

\* ------------------------------------------------------------- syntax tree
DefKinds == {"ClassDef", "FunctionDef", "AsyncFunctionDef"}
DocKinds == DefKinds \cup {"Module"}

MkNode(kind, value, body) == [kind |-> kind, value |-> value, body |-> body]

KindOfTok(tok) ==
    CASE tok = "class" -> "ClassDef"
      [] tok = "def" -> "FunctionDef"
      [] tok = "adef" -> "AsyncFunctionDef"
      [] tok = "if" -> "If"
      [] tok = "assign" -> "Assign"
      [] OTHER -> "Expr"

ValueOfTok(tok) ==
    CASE tok = "str" -> "Constant_str"
      [] tok = "assign" -> "Constant_str"
      [] tok = "bytes" -> "Constant_bytes"
      [] tok = "fstr" -> "JoinedStr"
      [] OTHER -> "-"

\* The statements of one block: the logical lines from index i on that sit at
\* column col.  A compound statement's header must be followed by a deeper
\* line, which opens its block; a line deeper than col anywhere else, or a
\* dedent to a column that is no enclosing block's, is an IndentationError.
RECURSIVE ParseBlock(_, _, _)
ParseBlock(ls, i, col) ==
    IF i > Len(ls) THEN [ok |-> TRUE, body |-> <<>>, next |-> i]
    ELSE IF ls[i].col < col THEN [ok |-> TRUE, body |-> <<>>, next |-> i]
    ELSE IF ls[i].col > col THEN [ok |-> FALSE, body |-> <<>>, next |-> i]
    ELSE IF ls[i].tok \in HeaderToks
    THEN IF i + 1 <= Len(ls) /\ ls[i + 1].col > col
         THEN LET sub == ParseBlock(ls, i + 1, ls[i + 1].col)
                  rest == ParseBlock(ls, sub.next, col)
                  node == MkNode(KindOfTok(ls[i].tok), "-", sub.body)
              IN IF sub.ok /\ rest.ok
                 THEN [ok |-> TRUE, body |-> <<node>> \o rest.body,
                       next |-> rest.next]
                 ELSE [ok |-> FALSE, body |-> <<>>, next |-> i]
         ELSE [ok |-> FALSE, body |-> <<>>, next |-> i]
    ELSE LET rest == ParseBlock(ls, i + 1, col)
             node == MkNode(KindOfTok(ls[i].tok), ValueOfTok(ls[i].tok), <<>>)
         IN IF rest.ok
            THEN [ok |-> TRUE, body |-> <<node>> \o rest.body,
                  next |-> rest.next]
            ELSE [ok |-> FALSE, body |-> <<>>, next |-> i]

\* ast.parse(source): comments and blank lines yield no tokens.
ast_parse(text) ==
    LET r == ParseBlock(SelectSeq(text.lines, IsLogical), 1, 0)
    IN IF r.ok THEN [ok |-> TRUE, tree |-> MkNode("Module", "-", r.body)]
       ELSE [ok |-> FALSE, tree |-> NoneValue]

\* isinstance(first, ast.Expr) and isinstance(first.value, ast.Constant)
\* and isinstance(first.value.value, str)
IsDocstringStmt(s) == s.kind = "Expr" /\ s.value = "Constant_str"

\* The isinstance(value.value, str) test left out: any leading constant goes.
_strip_docstring_from_body_anyConstant(body) ==
    IF body = <<>> THEN body
    ELSE IF body[1].kind = "Expr" /\ body[1].value \in {"Constant_str", "Constant_bytes"}
    THEN Tail(body)
    ELSE body

_strip_docstring_from_body(body) ==
    IF body = <<>> THEN body
    ELSE IF IsDocstringStmt(body[1]) THEN Tail(body)
    ELSE body

\* The visit_* methods without their self.generic_visit(node): the node's own
\* docstring goes, nested definitions are never reached.
visit_noGenericVisit(node) ==
    IF node.kind \in DocKinds
    THEN [node EXCEPT !.body = _strip_docstring_from_body(node.body)]
    ELSE node

\* A transformer whose generic_visit stops at statements that are no
\* definitions: what an `if` holds is never visited.
RECURSIVE visit_definitionsOnly(_)
visit_definitionsOnly(node) ==
    IF node.kind \in DocKinds
    THEN LET b == _strip_docstring_from_body(node.body)
         IN [node EXCEPT !.body = [i \in 1..Len(b) |-> visit_definitionsOnly(b[i])]]
    ELSE node

\* NodeTransformer.visit: visit_Module, visit_ClassDef, visit_FunctionDef and
\* visit_AsyncFunctionDef strip the body and then generic_visit the node;
\* generic_visit visits every statement of the body of any other node.
RECURSIVE visit(_)
visit(node) ==
    LET b == IF node.kind \in DocKinds
             THEN _strip_docstring_from_body(node.body)
             ELSE node.body
    IN [node EXCEPT !.body = [i \in 1..Len(b) |-> visit(b[i])]]

\* ast.unparse of a body at one indentation level.  A class or function
\* header is preceded by an empty line; a leading docstring of a module,
\* class or function body is written triple-quoted, any other string literal
\* with single quotes.
TokOfNode(n) ==
    CASE n.kind = "ClassDef" -> "class"
      [] n.kind = "FunctionDef" -> "def"
      [] n.kind = "AsyncFunctionDef" -> "adef"
      [] n.kind = "If" -> "if"
      [] n.kind = "Assign" -> "assign"
      [] n.value = "Constant_str" -> "str"
      [] n.value = "Constant_bytes" -> "bytes"
      [] OTHER -> "fstr"

RECURSIVE UnparseBody(_, _, _)
UnparseBody(body, level, docctx) ==
    IF body = <<>> THEN <<>>
    ELSE LET s == body[1]
             tok == TokOfNode(s)
             q == IF tok \notin StringToks THEN "-"
                  ELSE IF docctx /\ IsDocstringStmt(s) THEN "tq"
                  ELSE "sq"
             own == (IF s.kind \in DefKinds THEN <<EmptyLine>> ELSE <<>>)
                    \o <<MkLine(level, tok, q, FALSE)>>
                    \o UnparseBody(s.body, level + 1, s.kind \in DefKinds)
         IN own \o UnparseBody(Tail(body), level, FALSE)

ast_unparse(tree) ==
    LET ls == UnparseBody(tree.body, 0, TRUE)
    IN MkText(IF ls # <<>> /\ ls[1] = EmptyLine THEN Tail(ls) ELSE ls, FALSE)

\* A shortcut that hands the source back when no docstring was removed.
Regenerate_unlessUnchanged(source, tree, new_tree) ==
    IF new_tree = tree THEN source ELSE ast_unparse(new_tree)

\* transformed = ast.unparse(new_tree): the text comes from the tree alone.
Regenerate(source, tree, new_tree) == ast_unparse(new_tree)

\* strip_comments with the values of its locals when it returns or raises.
StripCommentsRun(source) ==
    IF IsBlank(source)
    THEN [exc |-> "ValueError", parsed |-> FALSE, tree |-> NoneValue,
          new_tree |-> NoneValue, text |-> EmptyText]
    ELSE LET p == ast_parse(source)
         IN IF ~p.ok
            THEN [exc |-> "SyntaxError", parsed |-> TRUE, tree |-> NoneValue,
                  new_tree |-> NoneValue, text |-> EmptyText]
            ELSE LET new_tree == visit(p.tree)
                     transformed == Regenerate(source, p.tree, new_tree)
                 IN [exc |-> "-", parsed |-> TRUE, tree |-> p.tree,
                     new_tree |-> new_tree,
                     text |-> ensure_trailing_newline(transformed)]

\* What the caller sees: the returned text, or the exception raised.
strip_comments(source) ==
    CHOOSE outcome \in {[exc |-> r.exc, text |-> r.text] :
                           r \in {StripCommentsRun(source)}} : TRUE

\* ------------------------------------------------------------------ inputs
\* Input literals are double-quoted.  An inline comment follows an assignment;
\* a line without a statement is empty, holds only whitespace, or holds only
\* a comment.
StringQuote(tok) == IF tok \in StringToks THEN "dq" ELSE "-"

WsLine == MkLine(1, "", "-", FALSE)
CommentLine == MkLine(0, "", "-", TRUE)

InputLines ==
    {MkLine(c, t, StringQuote(t), FALSE) : c \in 0..(MaxLines - 1), t \in StmtToks}
    \cup {MkLine(c, "assign", "dq", TRUE) : c \in 0..(MaxLines - 1)}
    \cup {EmptyLine, WsLine, CommentLine}

\* Indentation grows one step at a time: a statement sits at most one step
\* deeper than the statement before it, the first at most one step from the
\* margin.
RECURSIVE Stepwise(_, _)
Stepwise(ls, prev) ==
    IF ls = <<>> THEN TRUE
    ELSE IF ~IsLogical(ls[1]) THEN Stepwise(Tail(ls), prev)
    ELSE ls[1].col <= prev + 1 /\ Stepwise(Tail(ls), ls[1].col)

\* A text whose last line is empty and unterminated is the text without it.
IsText(lines, nl) ==
    /\ Stepwise(lines, 0)
    /\ IF lines = <<>> THEN ~nl
       ELSE ~(~nl /\ lines[Len(lines)] = EmptyLine)

\* ------------------------------------------------------------ file system
\* The tree the calls work on:
\*     a.py   n.txt   d/b.py   d/x.PY   d/s/c.py   e/ (empty)
\* missing.py names nothing.  The tree itself never changes: only file
\* contents do.
Files == {"a.py", "n.txt", "d/b.py", "d/x.PY", "d/s/c.py"}
Dirs == {"d", "d/s", "e"}
ArgPaths == {"a.py", "n.txt", "d", "d/b.py", "e", "missing.py"}

Children(p) ==
    CASE p = "d" -> {"d/b.py", "d/x.PY", "d/s"}
      [] p = "d/s" -> {"d/s/c.py"}
      [] OTHER -> {}

\* Path.suffix
Suffix(p) ==
    CASE p \in {"a.py", "d/b.py", "d/s/c.py", "missing.py"} -> ".py"
      [] p = "d/x.PY" -> ".PY"
      [] p = "n.txt" -> ".txt"
      [] OTHER -> ""

\* str.lower
Lower(sfx) == IF sfx = ".PY" THEN ".py" ELSE sfx

PYTHON_SUFFIX == ".py"

exists(p) == p \in Files \cup Dirs
is_file(p) == p \in Files
is_dir(p) == p \in Dirs

\* What a file can hold: a text, which the encoding of the call may be unable
\* to decode.
\*  "doc"
\*  x = "# s"  # c
TextG == MkText(<<MkLine(0, "str", "dq", FALSE), MkLine(0, "assign", "dq", TRUE)>>, TRUE)
\*  "doc"
\*  "doc"
TextD == MkText(<<MkLine(0, "str", "dq", FALSE), MkLine(0, "str", "dq", FALSE)>>, TRUE)
\*  def f():
TextB == MkText(<<MkLine(0, "def", "-", FALSE)>>, TRUE)
\*  def f():
\*      "doc"
TextE == MkText(<<MkLine(0, "def", "-", FALSE), MkLine(1, "str", "dq", FALSE)>>, TRUE)

MkFile(content, decodable, writable) ==
    [content |-> content, decodable |-> decodable, writable |-> writable]

FileStates ==
    {MkFile(c, TRUE, TRUE) : c \in {TextG, TextD, TextB, TextE, EmptyText}}
    \cup {MkFile(TextG, FALSE, TRUE), MkFile(TextG, TRUE, FALSE)}

VariedFiles == {"a.py", "d/b.py", "d/s/c.py"}

\* dict
EmptyDict == <<>>
DictSet(d, k, v) == (k :> v) @@ d
DictUpdate(d, other) == other @@ d

RECURSIVE Perms(_)
Perms(S) ==
    IF S = {} THEN {<<>>}
    ELSE UNION {{<<x>> \o p : p \in Perms(S \ {x})} : x \in S}

\* Path.rglob("*.py") matches the name as written (fnmatch on POSIX).
GlobMatches(p) == Suffix(p) = PYTHON_SUFFIX

\* The orders root.rglob can yield: the matches of a directory, in any
\* order, before those of its subdirectory (each directory here has at most
\* one).
RECURSIVE RGlobOrders(_)
RGlobOrders(dir) ==
    LET own == {c \in Children(dir) : is_file(c) /\ GlobMatches(c)}
        subs == {c \in Children(dir) : is_dir(c)}
    IN IF subs = {} THEN Perms(own)
       ELSE {o \o r : o \in Perms(own), r \in RGlobOrders(CHOOSE c \in subs : TRUE)}

\* _iter_python_files: the lists it can return (a directory is listed in
\* any order).
_iter_python_files(root, recursive) ==
    IF is_file(root)
    THEN {IF Lower(Suffix(root)) = PYTHON_SUFFIX THEN <<root>> ELSE <<>>}
    ELSE IF ~recursive
    THEN Perms({c \in Children(root) :
                   is_file(c) /\ Lower(Suffix(c)) = PYTHON_SUFFIX})
    ELSE RGlobOrders(root)

\* _read_text
_read_text(d, p) ==
    IF ~d[p].decodable
    THEN [exc |-> "UnicodeDecodeError", data |-> EmptyText]
    ELSE [exc |-> "-", data |-> d[p].content]

\* _write_text: the file holds data afterwards, or open() fails.
_write_text(d, p, data) ==
    IF d[p].writable
    THEN [exc |-> "-", disk |-> [d EXCEPT ![p].content = data]]
    ELSE [exc |-> "PermissionError", disk |-> d]

Event(ev, p) == [ev |-> ev, path |-> p]

\* The write done whatever inplace says.
write_back_always(d, p, inplace, stripped) ==
    LET w == _write_text(d, p, stripped)
    IN [exc |-> w.exc, disk |-> w.disk, log |-> <<Event("write", p)>>]

\* if inplace: _write_text(p, stripped, encoding=encoding)
write_back(d, p, inplace, stripped) ==
    IF inplace
    THEN LET w == _write_text(d, p, stripped)
         IN [exc |-> w.exc, disk |-> w.disk, log |-> <<Event("write", p)>>]
    ELSE [exc |-> "-", disk |-> d, log |-> <<>>]

\* strip_file on disk d: the exception or <<the returned text>>, the disk
\* afterwards, and the reads and writes done.
strip_file(d, p, inplace) ==
    IF ~exists(p)
    THEN [exc |-> "FileNotFoundError", value |-> <<>>, disk |-> d, log |-> <<>>]
    ELSE IF ~is_file(p)
    THEN [exc |-> "ValueError", value |-> <<>>, disk |-> d, log |-> <<>>]
    ELSE IF Lower(Suffix(p)) # PYTHON_SUFFIX
    THEN [exc |-> "ValueError", value |-> <<>>, disk |-> d, log |-> <<>>]
    ELSE LET original == _read_text(d, p)
             rd == <<Event("read", p)>>
         IN IF original.exc # "-"
            THEN [exc |-> original.exc, value |-> <<>>, disk |-> d, log |-> rd]
            ELSE CHOOSE outcome \in
                   {IF stripped.exc # "-"
                    THEN [exc |-> stripped.exc, value |-> <<>>, disk |-> d,
                          log |-> rd]
                    ELSE LET w == write_back(d, p, inplace, stripped.text)
                         IN IF w.exc # "-"
                            THEN [exc |-> w.exc, value |-> <<>>,
                                  disk |-> w.disk, log |-> rd \o w.log]
                            ELSE [exc |-> "-", value |-> <<stripped.text>>,
                                  disk |-> w.disk, log |-> rd \o w.log]
                    : stripped \in {strip_comments(original.data)}} : TRUE

\* An except clause that logs and forgets to raise for I/O and encoding errors.
reraises_onlySyntaxError(exc) == exc = "SyntaxError"

\* strip_path's loop: SyntaxError is re-raised, UnicodeError and OSError are
\* re-raised, anything else is not caught.
reraises(exc) == TRUE

\* ------------------------------------------------------------- exit codes
EXIT_SUCCESS == 0
EXIT_FAILURE == 1
EXIT_USAGE == 2

\* The except clauses of _process_stdin and _process_paths.
ExitCodeOf(exc) ==
    IF exc \in {"FileNotFoundError", "ValueError", "UnicodeDecodeError",
                "SyntaxError", "PermissionError"}
    THEN EXIT_FAILURE
    ELSE EXIT_FAILURE  \* not caught: the interpreter exits with 1

\* ------------------------------------------------------------------- state
VARIABLES
    pc,          \* caller of strip_comments: "start", "stripped", "twice"
    source,      \* the text given to strip_comments
    run,         \* its outcome on source
    again,       \* its outcome on the text it returned
    disk,        \* file -> content and whether it can be written
    disk0,       \* the disk when the call began
    op,          \* the call under way: name and arguments
    status,      \* "idle", "running", "returned", "raised", "exited"
    roots,       \* strip_paths: the paths still to process
    in_path,     \* inside strip_path
    files,       \* strip_path: files
    idx,         \* strip_path: how many of files are done
    results,     \* strip_path: results
    aggregated,  \* strip_paths: aggregated
    ret,         \* the exception raised, or <<the value returned>>
    stdout,      \* texts written to sys.stdout
    exit_code,   \* <<>> until main returns, then <<code>>
    io_log,      \* the reads and writes of files, in order
    failure      \* the first strip_file call of the batch that raised

tvars == <<pc, source, run, again>>
fvars == <<disk, disk0, op, status, roots, in_path, files, idx, results,
           aggregated, ret, stdout, exit_code, io_log, failure>>
vars == <<tvars, fvars>>

NoRun == [exc |-> "none"]
NoOp == [name |-> "-", paths |-> <<>>, inplace |-> FALSE, recursive |-> FALSE,
         stdin |-> EmptyText]
NoRet == [exc |-> "-", value |-> <<>>]
NoFailure == [file |-> "-", exc |-> "-", nlog |-> 0]

InitText ==
    /\ pc = "start"
    /\ run = NoRun
    /\ again = NoRun

InitFiles ==
    /\ disk0 = disk
    /\ op = NoOp
    /\ status = "idle"
    /\ roots = <<>>
    /\ in_path = FALSE
    /\ files = <<>>
    /\ idx = 0
    /\ results = EmptyDict
    /\ aggregated = EmptyDict
    /\ ret = NoRet
    /\ stdout = <<>>
    /\ exit_code = <<>>
    /\ io_log = <<>>
    /\ failure = NoFailure

DefaultDisk == [f \in Files |-> MkFile(TextG, TRUE, TRUE)]

\* ---------------------------------------------------- strip_comments calls
Init ==
    /\ InitText
    /\ \E n \in 0..MaxLines : \E f \in [1..n -> InputLines] : \E nl \in BOOLEAN :
          LET ls == SubSeq(f, 1, n)
          IN /\ IsText(ls, nl)
             /\ source = MkText(ls, nl)
    /\ disk = DefaultDisk
    /\ InitFiles

\* result = strip_comments(source)
StripComments ==
    /\ pc = "start"
    /\ run' = StripCommentsRun(source)
    /\ pc' = "stripped"
    /\ UNCHANGED <<source, again, fvars>>

\* strip_comments(result): the transformed text fed back in
StripAgain ==
    /\ pc = "stripped"
    /\ run.exc = "-"
    /\ again' = StripCommentsRun(run.text)
    /\ pc' = "twice"
    /\ UNCHANGED <<source, run, fvars>>

Next == StripComments \/ StripAgain

Spec == Init /\ [][Next]_vars

\* ------------------------------------------- calls on files and the CLI
InitDisk ==
    /\ InitText
    /\ source = EmptyText
    /\ \E v \in [VariedFiles -> FileStates] :
          disk = [f \in Files |-> IF f \in VariedFiles THEN v[f]
                                  ELSE MkFile(TextG, TRUE, TRUE)]
    /\ InitFiles

ArgLists == UNION {[1..n -> ArgPaths] : n \in 0..MaxArgs}

StdinTexts == {TextG, TextB, EmptyText}

MkOp(name, paths, inplace, recursive, stdin) ==
    [name |-> name, paths |-> paths, inplace |-> inplace,
     recursive |-> recursive, stdin |-> stdin]

\* strip_file(p, inplace=inplace)
CallStripFile ==
    /\ status = "idle"
    /\ \E p \in ArgPaths \cup {"d/x.PY"}, inplace \in BOOLEAN :
          \E o \in {strip_file(disk, p, inplace)} :
             /\ op' = MkOp("strip_file", <<p>>, inplace, FALSE, EmptyText)
             /\ disk' = o.disk
             /\ io_log' = o.log
             /\ ret' = [exc |-> o.exc, value |-> o.value]
             /\ status' = IF o.exc = "-" THEN "returned" ELSE "raised"
    /\ UNCHANGED <<tvars, disk0, roots, in_path, files, idx, results,
                   aggregated, stdout, exit_code, failure>>

\* strip_path(p, inplace=inplace, recursive=recursive) is entered
CallStripPath ==
    /\ status = "idle"
    /\ \E p \in ArgPaths, inplace \in BOOLEAN, recursive \in BOOLEAN :
          /\ op' = MkOp("strip_path", <<p>>, inplace, recursive, EmptyText)
          /\ roots' = <<p>>
    /\ status' = "running"
    /\ UNCHANGED <<tvars, disk, disk0, in_path, files, idx, results,
                   aggregated, ret, stdout, exit_code, io_log, failure>>

\* strip_paths(ps, inplace=inplace, recursive=recursive) is entered
CallStripPaths ==
    /\ status = "idle"
    /\ \E a \in ArgLists, inplace \in BOOLEAN, recursive \in BOOLEAN :
          LET ps == SubSeq(a, 1, Len(a))
          IN /\ op' = MkOp("strip_paths", ps, inplace, recursive, EmptyText)
             /\ roots' = ps
    /\ status' = "running"
    /\ UNCHANGED <<tvars, disk, disk0, in_path, files, idx, results,
                   aggregated, ret, stdout, exit_code, io_log, failure>>

\* main without positional paths: --inplace is a usage error, otherwise
\* _process_stdin reads sys.stdin, transforms and writes sys.stdout.
CliStdin ==
    /\ status = "idle"
    /\ \E inplace \in BOOLEAN, input \in StdinTexts :
          /\ op' = MkOp("main", <<>>, inplace, TRUE, input)
          /\ IF inplace
             THEN /\ exit_code' = <<EXIT_USAGE>>
                  /\ UNCHANGED <<stdout, ret, io_log>>
             ELSE \E output_text \in {strip_comments(input)} :
                     /\ io_log' = <<Event("read", "sys.stdin")>>
                     /\ IF output_text.exc = "-"
                        THEN /\ stdout' = Append(stdout, output_text.text)
                             /\ exit_code' = <<EXIT_SUCCESS>>
                             /\ UNCHANGED ret
                        ELSE /\ exit_code' = <<ExitCodeOf(output_text.exc)>>
                             /\ ret' = [exc |-> output_text.exc, value |-> <<>>]
                             /\ UNCHANGED stdout
    /\ status' = "exited"
    /\ UNCHANGED <<tvars, disk, disk0, roots, in_path, files, idx, results,
                   aggregated, failure>>

\* The paths _process_paths hands on: all of them to strip_paths with
\* --inplace, the first one to strip_path without.
ProcessedPaths(paths, inplace) == IF inplace THEN paths ELSE <<paths[1]>>

\* main with positional paths: _process_paths calls strip_paths or strip_path
CliPaths ==
    /\ status = "idle"
    /\ \E a \in ArgLists \ {<<>>}, inplace \in BOOLEAN, recursive \in BOOLEAN :
          LET ps == SubSeq(a, 1, Len(a))
          IN /\ op' = MkOp("main", ps, inplace, recursive, EmptyText)
             /\ roots' = ProcessedPaths(ps, inplace)
    /\ status' = "running"
    /\ UNCHANGED <<tvars, disk, disk0, in_path, files, idx, results,
                   aggregated, ret, stdout, exit_code, io_log, failure>>

\* strip_path up to its loop: the path must exist, its files are listed, and
\* a file that is no Python file is refused.
EnterPath ==
    /\ status = "running"
    /\ ~in_path
    /\ roots # <<>>
    /\ LET root == Head(roots)
       IN IF ~exists(root)
          THEN /\ ret' = [exc |-> "FileNotFoundError", value |-> <<>>]
               /\ status' = "raised"
               /\ UNCHANGED <<in_path, files, idx, results>>
          ELSE \E fl \in _iter_python_files(root, op.recursive) :
                  IF is_file(root) /\ fl = <<>>
                  THEN /\ ret' = [exc |-> "ValueError", value |-> <<>>]
                       /\ status' = "raised"
                       /\ UNCHANGED <<in_path, files, idx, results>>
                  ELSE /\ files' = fl
                       /\ idx' = 0
                       /\ results' = EmptyDict
                       /\ in_path' = TRUE
                       /\ UNCHANGED <<ret, status>>
    /\ UNCHANGED <<tvars, disk, disk0, op, roots, aggregated, stdout,
                   exit_code, io_log, failure>>

\* One round of strip_path's loop: strip_file on the next file.
StepFile ==
    /\ status = "running"
    /\ in_path
    /\ idx < Len(files)
    /\ \E file_path \in {files[idx + 1]} :
       \E o \in {strip_file(disk, file_path, op.inplace)} :
          /\ disk' = o.disk
          /\ io_log' = io_log \o o.log
          /\ IF o.exc = "-"
             THEN /\ results' = DictSet(results, file_path, o.value[1])
                  /\ idx' = idx + 1
                  /\ UNCHANGED <<ret, status, failure>>
             ELSE /\ failure' = IF failure = NoFailure
                                THEN [file |-> file_path, exc |-> o.exc,
                                      nlog |-> Len(io_log) + Len(o.log)]
                                ELSE failure
                  /\ IF reraises(o.exc)
                     THEN /\ ret' = [exc |-> o.exc, value |-> <<>>]
                          /\ status' = "raised"
                          /\ UNCHANGED <<idx, results>>
                     ELSE /\ idx' = idx + 1
                          /\ UNCHANGED <<ret, status, results>>
    /\ UNCHANGED <<tvars, disk0, op, roots, in_path, files, aggregated,
                   stdout, exit_code>>

\* strip_path returns results; strip_paths merges them into aggregated.
LeavePath ==
    /\ status = "running"
    /\ in_path
    /\ idx = Len(files)
    /\ aggregated' = DictUpdate(aggregated, results)
    /\ roots' = Tail(roots)
    /\ in_path' = FALSE
    /\ UNCHANGED <<tvars, disk, disk0, op, status, files, idx, results, ret,
                   stdout, exit_code, io_log, failure>>

\* The batch returns its mapping.
Return ==
    /\ status = "running"
    /\ ~in_path
    /\ roots = <<>>
    /\ ret' = [exc |-> "-", value |-> <<aggregated>>]
    /\ status' = "returned"
    /\ UNCHANGED <<tvars, disk, disk0, op, roots, in_path, files, idx,
                   results, aggregated, stdout, exit_code, io_log, failure>>

\* The rest of _process_paths: an exception becomes EXIT_FAILURE; with
\* --inplace the result is only counted; without, a mapping of exactly one
\* entry is written to sys.stdout and any other size is a usage error.
CliExit ==
    /\ op.name = "main"
    /\ status \in {"returned", "raised"}
    /\ IF status = "raised"
       THEN /\ exit_code' = <<ExitCodeOf(ret.exc)>>
            /\ UNCHANGED stdout
       ELSE IF op.inplace
       THEN /\ exit_code' = <<EXIT_SUCCESS>>
            /\ UNCHANGED stdout
       ELSE IF Cardinality(DOMAIN ret.value[1]) # 1
       THEN /\ exit_code' = <<EXIT_USAGE>>
            /\ UNCHANGED stdout
       ELSE /\ stdout' = Append(stdout, ret.value[1][CHOOSE k \in DOMAIN ret.value[1] : TRUE])
            /\ exit_code' = <<EXIT_SUCCESS>>
    /\ status' = "exited"
    /\ UNCHANGED <<tvars, disk, disk0, op, roots, in_path, files, idx,
                   results, aggregated, ret, io_log, failure>>

NextFiles ==
    \/ CallStripFile
    \/ CallStripPath
    \/ CallStripPaths
    \/ CliStdin
    \/ CliPaths
    \/ EnterPath
    \/ StepFile
    \/ LeavePath
    \/ Return
    \/ CliExit

SpecFiles == InitDisk /\ [][NextFiles]_vars

\* ------------------------------------------------- properties of the text
Stripped == pc # "start" /\ run.exc = "-"

\* _has_leading_docstring_in_body of the test suite.
_has_leading_docstring_in_body(body) ==
    IF body = <<>> THEN FALSE
    ELSE body[1].kind = "Expr" /\ body[1].value = "Constant_str"

\* Some module, class or function body of the tree starts with a docstring.
RECURSIVE AnyLeadingDocstring(_)
AnyLeadingDocstring(node) ==
    \/ node.kind \in DocKinds /\ _has_leading_docstring_in_body(node.body)
    \/ \E i \in 1..Len(node.body) : AnyLeadingDocstring(node.body[i])

\* Some class or function body of the tree, at any depth, starts with one.
RECURSIVE AnyDefDocstring(_)
AnyDefDocstring(node) ==
    \/ node.kind \in DefKinds /\ _has_leading_docstring_in_body(node.body)
    \/ \E i \in 1..Len(node.body) : AnyDefDocstring(node.body[i])

\* Some module, class or function body starts with two bare string literals.
RECURSIVE AnyDoubleString(_)
AnyDoubleString(node) ==
    \/ /\ node.kind \in DocKinds
       /\ _has_leading_docstring_in_body(node.body)
       /\ _has_leading_docstring_in_body(Tail(node.body))
    \/ \E i \in 1..Len(node.body) : AnyDoubleString(node.body[i])

\* Some class or function of the tree has an empty body.
RECURSIVE AnyEmptyDef(_)
AnyEmptyDef(node) ==
    \/ node.kind \in DefKinds /\ node.body = <<>>
    \/ \E i \in 1..Len(node.body) : AnyEmptyDef(node.body[i])

RECURSIVE CountTok(_, _)
CountTok(ls, tok) ==
    IF ls = <<>> THEN 0
    ELSE (IF ls[1].tok = tok THEN 1 ELSE 0) + CountTok(Tail(ls), tok)

RECURSIVE CountComments(_)
CountComments(ls) ==
    IF ls = <<>> THEN 0
    ELSE (IF ls[1].cmt THEN 1 ELSE 0) + CountComments(Tail(ls))

\* C1: the text strip_comments returns for a valid, non-blank input parses
\* again without error, also when a class or function body was nothing but
\* a docstring.
C1_OutputReparses == Stripped => ast_parse(run.text).ok

\* C2 as stated: whenever the returned text parses again, no module, class or
\* function body of the parsed tree starts with a docstring.
C2_NoLeadingDocstringLeft ==
    Stripped =>
        LET again_tree == ast_parse(run.text)
        IN again_tree.ok => ~AnyLeadingDocstring(again_tree.tree)

\* C2 amended: for a valid input in which no module, class or function body
\* starts with two consecutive bare string literals, whenever the returned
\* text parses again no module, class or function body of it starts with a
\* docstring.
C2_NoLeadingDocstringLeftUnlessDoubled ==
    (Stripped /\ ~AnyDoubleString(run.tree)) =>
        LET again_tree == ast_parse(run.text)
        IN again_tree.ok => ~AnyLeadingDocstring(again_tree.tree)

C2_Witness ==
    /\ Stripped
    /\ AnyDefDocstring(run.tree)
    /\ ~AnyDoubleString(run.tree)
    /\ ast_parse(run.text).ok
    /\ Len(ast_parse(run.text).tree.body) > 0

\* What docstring removal may do to one node and, below it, to every node:
\* the body loses nothing or its first statement only; it loses the first
\* statement exactly when the node is a module, class or function and that
\* statement is an expression statement of a string constant; the statements
\* that stay keep their kind, value and order.
RECURSIVE FrameOK(_, _)
FrameOK(old, new) ==
    /\ new.kind = old.kind
    /\ new.value = old.value
    /\ LET k == Len(old.body) - Len(new.body)
           first_is_docstring ==
               /\ old.kind \in DocKinds
               /\ old.body # <<>>
               /\ old.body[1].kind = "Expr"
               /\ old.body[1].value = "Constant_str"
       IN /\ k \in {0, 1}
          /\ (k = 1) = first_is_docstring
          /\ \A i \in 1..Len(new.body) : FrameOK(old.body[i + k], new.body[i])

\* C3: docstring removal takes at most the single first statement of a body,
\* and only an expression statement whose value is a string constant; every
\* other body is unchanged, the remaining statements keep content and order,
\* and a string literal that is assigned stays in the returned text.
C3_RemovesOnlyLeadingString ==
    Stripped =>
        /\ FrameOK(run.tree, run.new_tree)
        /\ CountTok(run.text.lines, "assign") = CountTok(source.lines, "assign")

\* A body that starts with a bytes literal is kept whole, a docstring is
\* removed elsewhere, and an assigned string is still there.
C3_Witness ==
    /\ Stripped
    /\ run.tree # run.new_tree
    /\ \E i \in 1..Len(run.tree.body) :
          /\ run.tree.body[i].kind \in DefKinds
          /\ run.tree.body[i].body # <<>>
          /\ run.tree.body[i].body[1].value \in {"Constant_bytes", "JoinedStr"}
    /\ Len(run.new_tree.body) = Len(run.tree.body) - 1

\* C4: for a valid input without comments, strip_comments of the returned
\* text succeeds and returns that same text.
C4_Idempotent ==
    (pc = "twice" /\ CountComments(source.lines) = 0) =>
        /\ again.exc = "-"
        /\ again.text = run.text

\* C5: no line of the returned text carries a comment; a `#` that is left is
\* the one inside the string literal of an assignment.
C5_NoCommentSurvives ==
    Stripped => \A i \in 1..Len(run.text.lines) : ~run.text.lines[i].cmt

\* The input had a comment after an assignment whose string holds a `#`; the
\* assignment is in the returned text.
C5_Witness ==
    /\ Stripped
    /\ \E i \in 1..Len(source.lines) :
          source.lines[i].tok = "assign" /\ source.lines[i].cmt
    /\ \E i \in 1..Len(source.lines) :
          source.lines[i].tok = "" /\ source.lines[i].cmt
    /\ CountTok(run.text.lines, "assign") > 0

\* The text ends with "\n" and not with "\n\n".
EndsWithOneNewline(text) ==
    /\ text.nl
    /\ ~(Len(text.lines) >= 2 /\ text.lines[Len(text.lines)] = EmptyLine)

\* C6: every returned text ends with exactly one newline character.
C6_ExactlyOneTrailingNewline == Stripped => EndsWithOneNewline(run.text)

\* A module that is only a docstring, without a final newline: the returned
\* text is the single newline.
C6_Witness ==
    /\ Stripped
    /\ ~source.nl
    /\ Len(source.lines) = 1
    /\ source.lines[1].tok = "str"
    /\ run.text = MkText(<<EmptyLine>>, TRUE)

\* C7: an input that is empty or only whitespace makes strip_comments raise
\* ValueError, before ast.parse is called, and no text is returned.
C7_BlankRejectedBeforeParsing ==
    (pc # "start" /\ \A i \in 1..Len(source.lines) :
                        source.lines[i].tok = "" /\ ~source.lines[i].cmt) =>
        /\ run.exc = "ValueError"
        /\ ~run.parsed
        /\ run.text = EmptyText

\* A whitespace-only input of two lines was rejected.
C7_Witness ==
    /\ pc = "stripped"
    /\ source.lines = <<WsLine, EmptyLine>>
    /\ run.exc = "ValueError"


\* ------------------------------------------------ nesting of definitions
RECURSIVE SumSeq(_)
SumSeq(ns) == IF Len(ns) = 0 THEN 0 ELSE ns[1] + SumSeq(Tail(ns))

\* The statements of a tree, at every depth.
RECURSIVE NodeCount(_)
NodeCount(node) ==
    1 + SumSeq([i \in 1..Len(node.body) |-> NodeCount(node.body[i])])

\* The classes and functions of a tree, at every depth.
RECURSIVE DefCount(_)
DefCount(node) ==
    (IF node.kind \in DefKinds THEN 1 ELSE 0)
    + SumSeq([i \in 1..Len(node.body) |-> DefCount(node.body[i])])

\* The module, class and function bodies of a tree, at every depth and under
\* any kind of statement, that start with a docstring.
RECURSIVE LeadingDocstrings(_)
LeadingDocstrings(node) ==
    (IF node.kind \in DocKinds /\ _has_leading_docstring_in_body(node.body)
     THEN 1 ELSE 0)
    + SumSeq([i \in 1..Len(node.body) |-> LeadingDocstrings(node.body[i])])

\* C13: docstring removal reaches every class and function at any depth,
\* also inside other definitions and inside an `if`, each body on its own:
\* the transformed tree has lost one statement for every body of the parsed
\* tree that starts with a docstring, whatever encloses that body, and no
\* definition.
C13_ReachesEveryDefinition ==
    Stripped =>
        /\ NodeCount(run.new_tree)
              = NodeCount(run.tree) - LeadingDocstrings(run.tree)
        /\ DefCount(run.new_tree) = DefCount(run.tree)

\* A function inside an `if` has lost its docstring, or a definition inside
\* a definition has, under a module that had a docstring of its own or not.
C13_Witness ==
    /\ Stripped
    /\ Len(run.tree.body) = 1
    /\ run.tree.body[1].kind \in DefKinds \cup {"If"}
    /\ Len(run.tree.body[1].body) = 1
    /\ run.tree.body[1].body[1].kind \in DefKinds
    /\ _has_leading_docstring_in_body(run.tree.body[1].body[1].body)
    /\ run.new_tree.body[1].body[1].body = <<>>

\* --------------------------------------- properties of the calls on files
Range(seq) == {seq[i] : i \in DOMAIN seq}

\* C8: a strip_file call that returns gives back strip_comments of the
\* content the file had, whatever inplace is; with inplace=False the disk is
\* as it was, with inplace=True the file holds the returned text afterwards
\* (and no other file has changed).
C8_StripFileReturnsAndWrites ==
    (op.name = "strip_file" /\ status = "returned") =>
        LET p == op.paths[1]
        IN /\ ret.value = <<strip_comments(disk0[p].content).text>>
           /\ \A f \in Files \ {p} : disk[f] = disk0[f]
           /\ ~op.inplace => disk = disk0
           /\ op.inplace => disk[p].content = ret.value[1]

\* An in-place strip_file call returned and the file's content has changed.
C8_Witness ==
    /\ op.name = "strip_file"
    /\ status = "returned"
    /\ op.inplace
    /\ disk[op.paths[1]].content # disk0[op.paths[1]].content

\* Every write in the log comes directly after the read of the same file,
\* and a file is read only once the one before it is finished.
OneAfterAnother ==
    \A i \in DOMAIN io_log :
        io_log[i].ev = "write" =>
            /\ i > 1
            /\ io_log[i - 1] = Event("read", io_log[i].path)

\* C9: in strip_path and strip_paths the files are handled one after
\* another, and once strip_file has failed on a file the batch is over: the
\* caller gets that very exception and no mapping, and nothing has been read
\* or written since the failure.
C9_FailureAbortsBatch ==
    (op.name \in {"strip_path", "strip_paths"}) =>
        /\ OneAfterAnother
        /\ failure # NoFailure =>
              /\ status = "raised"
              /\ ret = [exc |-> failure.exc, value |-> <<>>]
              /\ Len(io_log) = failure.nlog
              /\ \A f \in Files :
                    (\A i \in DOMAIN io_log : io_log[i].path # f) =>
                        disk[f] = disk0[f]

\* A batch failed on a file after another file had been read and written in
\* place, with a file of the listing still to come.
C9_Witness ==
    /\ op.name = "strip_paths"
    /\ op.inplace
    /\ failure # NoFailure
    /\ failure.exc \in {"SyntaxError", "UnicodeDecodeError", "PermissionError"}
    /\ \E i \in DOMAIN io_log :
          io_log[i].ev = "write" /\ io_log[i].path # failure.file
    /\ idx + 1 < Len(files)

\* The Python files the positional paths name between them.
ResolvedFiles(paths, recursive) ==
    UNION {Range(CHOOSE fl \in _iter_python_files(paths[i], recursive) : TRUE) :
              i \in {j \in DOMAIN paths : exists(paths[j])}}

\* C10: main with positional paths and no --inplace writes to sys.stdout
\* only if the paths together name exactly one Python file; if they name
\* several (every path is a directory or a Python file that exists, and
\* every file named can be transformed), it returns EXIT_USAGE with nothing
\* on sys.stdout and no file changed.
C10_StdoutOnlyForOneFile ==
    (op.name = "main" /\ op.paths # <<>> /\ ~op.inplace /\ status = "exited") =>
        LET resolved == ResolvedFiles(op.paths, op.recursive)
        IN /\ stdout # <<>> => Cardinality(resolved) = 1
           /\ (/\ Cardinality(resolved) > 1
               /\ \A i \in DOMAIN op.paths :
                     /\ exists(op.paths[i])
                     /\ is_dir(op.paths[i])
                           \/ Lower(Suffix(op.paths[i])) = PYTHON_SUFFIX
               /\ \A f \in resolved : strip_file(disk0, f, FALSE).exc = "-")
              => /\ exit_code = <<EXIT_USAGE>>
                 /\ stdout = <<>>
                 /\ disk = disk0

\* One directory holding several Python files, no --inplace: EXIT_USAGE and
\* nothing written.
C10_DirectoryRefused ==
    /\ op.name = "main"
    /\ op.paths = <<"d">>
    /\ ~op.inplace
    /\ status = "exited"
    /\ exit_code = <<EXIT_USAGE>>
    /\ stdout = <<>>

\* main --inplace has ended without any exception.
InplaceRunSucceeded ==
    /\ op.name = "main"
    /\ op.inplace
    /\ op.paths # <<>>
    /\ status = "exited"
    /\ ret.exc = "-"

\* C11: main with positional paths and --inplace, no file failing: every
\* Python file the paths name holds strip_comments of the content it had
\* before, sys.stdout got nothing, and the exit code is EXIT_SUCCESS.
C11_InplaceRewritesEveryFile ==
    InplaceRunSucceeded =>
        /\ \A f \in ResolvedFiles(op.paths, op.recursive) :
              disk[f].content = strip_comments(disk0[f].content).text
        /\ stdout = <<>>
        /\ exit_code = <<EXIT_SUCCESS>>

\* A directory and a file were rewritten in place, each file visited once.
C11_Witness ==
    /\ InplaceRunSucceeded
    /\ op.paths = <<"d", "a.py">>
    /\ \A f \in ResolvedFiles(op.paths, op.recursive) :
          /\ disk[f].content # disk0[f].content
          /\ disk[f].content = strip_comments(disk0[f].content).text

\* Several outputs asked for on sys.stdout: no --inplace, every positional
\* path a directory or a Python file that exists, more than one file named,
\* every one of them transformable.
MultipleOutputs ==
    /\ op.paths # <<>>
    /\ ~op.inplace
    /\ Cardinality(ResolvedFiles(op.paths, op.recursive)) > 1
    /\ \A i \in DOMAIN op.paths :
          /\ exists(op.paths[i])
          /\ is_dir(op.paths[i]) \/ Lower(Suffix(op.paths[i])) = PYTHON_SUFFIX
    /\ \A f \in ResolvedFiles(op.paths, op.recursive) :
          strip_file(disk0, f, FALSE).exc = "-"

\* C12: main ends with the exit code of its outcome: EXIT_FAILURE when an
\* exception (parse, I/O, decoding, invalid input, missing path) came up;
\* EXIT_USAGE on a usage error, which is --inplace without paths (and then
\* sys.stdin is not read) or several outputs without --inplace, and never
\* when exactly one output was asked for; EXIT_SUCCESS otherwise; and with a non-zero exit code sys.stdout got
\* nothing.
C12_ExitCodeByOutcome ==
    (op.name = "main" /\ status = "exited") =>
        /\ exit_code \in {<<EXIT_SUCCESS>>, <<EXIT_FAILURE>>, <<EXIT_USAGE>>}
        /\ ret.exc # "-" => exit_code = <<EXIT_FAILURE>>
        /\ exit_code = <<EXIT_FAILURE>> => ret.exc # "-"
        /\ (op.paths = <<>> /\ op.inplace) =>
              /\ exit_code = <<EXIT_USAGE>>
              /\ io_log = <<>>
        /\ MultipleOutputs => exit_code = <<EXIT_USAGE>>
        /\ exit_code = <<EXIT_USAGE>> =>
              \/ op.paths = <<>> /\ op.inplace
              \/ /\ op.paths # <<>>
                 /\ ~op.inplace
                 /\ Cardinality(ResolvedFiles(op.paths, op.recursive)) # 1
        /\ exit_code # <<EXIT_SUCCESS>> => stdout = <<>>

\* Usage errors of both kinds and a failure have ended main.
C12_Witness ==
    /\ op.name = "main"
    /\ status = "exited"
    /\ \/ op.paths = <<>> /\ op.inplace /\ exit_code = <<EXIT_USAGE>>
       \/ op.paths = <<"d">> /\ ~op.inplace /\ exit_code = <<EXIT_USAGE>>
       \/ op.paths = <<"missing.py">> /\ exit_code = <<EXIT_FAILURE>>

\* The files a batch has written so far.
Written == {io_log[i].path : i \in {j \in DOMAIN io_log : io_log[j].ev = "write"}}

\* An in-place strip_path or strip_paths call has failed with a parse error.
InplaceBatchParseError ==
    /\ op.name \in {"strip_path", "strip_paths"}
    /\ op.inplace
    /\ status = "raised"
    /\ failure # NoFailure
    /\ failure.exc = "SyntaxError"

\* C14: an in-place batch that fails with a parse error on its N-th file is
\* not rolled back: the files processed before hold their transformed text,
\* the N-th file and every file not yet processed hold what they held before
\* the call.
C14_NoRollback ==
    InplaceBatchParseError =>
        /\ \A f \in Written \ {failure.file} :
              disk[f].content = strip_comments(disk0[f].content).text
        /\ \A f \in (Files \ Written) \cup {failure.file} :
              disk[f] = disk0[f]

\* A parse error on the second file of a directory, the first one rewritten
\* and changed, a third one untouched.
C14_Witness ==
    /\ InplaceBatchParseError
    /\ op.paths = <<"d">>
    /\ op.recursive
    /\ failure.file = "d/s/c.py"
    /\ disk["d/b.py"].content # disk0["d/b.py"].content
    /\ disk["d/b.py"].content = strip_comments(disk0["d/b.py"].content).text

\* Everything below a directory.
RECURSIVE Subtree(_)
Subtree(dir) == Children(dir) \cup UNION {Subtree(c) : c \in Children(dir)}

\* strip_path is inside a directory it has listed recursively.
ListedRecursively ==
    /\ op.name \in {"strip_path", "strip_paths", "main"}
    /\ in_path
    /\ op.recursive
    /\ is_dir(Head(roots))

\* C15: both modes of _iter_python_files filter by the same lower-cased
\* suffix: what the non-recursive listing of a directory selects the
\* recursive listing selects too, and so it does every file of the subtree
\* whose suffix strip_file accepts.
C15_RecursiveSelectsAll ==
    ListedRecursively =>
        /\ \A fl \in _iter_python_files(Head(roots), FALSE) :
              Range(fl) \subseteq Range(files)
        /\ \A f \in Subtree(Head(roots)) :
              (is_file(f) /\ Lower(Suffix(f)) = PYTHON_SUFFIX) =>
                  f \in Range(files)

\* The recursive listing of d has reached the file of its subdirectory.
C15_Witness ==
    /\ ListedRecursively
    /\ Head(roots) = "d"
    /\ {"d/b.py", "d/s/c.py"} \subseteq Range(files)

====
